---------------------------- MODULE Spec2Model ----------------------------
(***************************************************************************)
(* A model of the aidot Home Assistant integration:                        *)
(*   custom_components/aidot/__init__.py  (config entry setup / unload)    *)
(*   custom_components/aidot/light.py     (light platform, AidotLight)     *)
(*                                                                         *)
(* Every handler is a coroutine: it is modelled by one action per stretch  *)
(* of code between two awaits, so that other handlers run while it is      *)
(* parked.  Five specifications share the actions:                         *)
(*   SpecSetup    async_setup_entry / the light platform / unload on one   *)
(*                entry, over device lists, product lists and manual-IP    *)
(*                maps                                                     *)
(*   SpecStore    the same handlers on two entries sharing hass.data       *)
(*   SpecLight    the same handlers on one entry whose devices differ in   *)
(*                type, key and capability flags                           *)
(*   SpecService  async_turn_on / async_turn_off on one AidotLight         *)
(*   SpecLoop     entity lifecycle hooks and the status polling task       *)
(* The external client library and the host are modelled by the outcomes   *)
(* of their calls (return, raise AidotNotLogin, raise another Exception),  *)
(* chosen nondeterministically, and by a record of the calls made.         *)
(***************************************************************************)
EXTENDS Integers, Sequences, FiniteSets, TLC

VARIABLES
    \* ---- __init__.py: config entries ----
    entry_data,    \* per config entry: entry.data
    hass_data,     \* hass.data[DOMAIN]
    clients,       \* every AidotClient constructed, with the calls made on it
    setups,        \* per config entry: the async_setup_entry call in flight
                   \* or finished last
    last_call,     \* the last step of a handler of __init__.py or of the
                   \* light platform
    \* ---- light.py: the platform and the entities it builds ----
    info,          \* per device: device_client.info capability flags
    entities,      \* every AidotLight constructed
    \* ---- light.py: service calls on the first entity ----
    status_on,     \* device_client.status.on, owned by the client library
    calls,         \* the service calls in flight or finished last
    \* ---- light.py: lifecycle hooks and polling tasks ----
    update_task,   \* per entity: self.update_task (0: attribute not set)
    tasks,         \* every task created by hass.loop.create_task
    adding,        \* entities whose async_added_to_hass awaits async_login
    hass_state,    \* per entity: the last lifecycle hook the host started
    event          \* the calls made by the last step of a task or hook

setupVars   == <<entry_data, hass_data, clients, setups, last_call, info,
                 entities>>
serviceVars == <<status_on, calls>>
loopVars    == <<update_task, tasks, adding, hass_state, event>>
vars        == <<entry_data, hass_data, clients, setups, last_call, info,
                 entities, status_on, calls, update_task, tasks, adding,
                 hass_state, event>>

\* the outcomes of a call into the client library or the host
OK        == "ok"
NOT_LOGIN == "AidotNotLogin"
ERROR     == "Exception"
Outcomes  == {OK, NOT_LOGIN, ERROR}

Absent == "absent"

(***************************************************************************)
(*                    light.py : AidotLight.__init__                       *)
(***************************************************************************)
RGBW       == "rgbw"
COLOR_TEMP == "color_temp"
BRIGHTNESS == "brightness"
ONOFF      == "onoff"

Infos == [enable_rgbw : BOOLEAN, enable_cct : BOOLEAN, enable_dimming : BOOLEAN]

\* light.py 73-85 with the dimming test moved out of the "no colour mode" branch
supported_color_modes_dimming_first(i) ==
    LET s1 == IF i.enable_rgbw THEN {RGBW} ELSE {}
        s2 == IF i.enable_cct THEN s1 \cup {COLOR_TEMP} ELSE s1
    IN  IF i.enable_dimming THEN s2 \cup {BRIGHTNESS}
        ELSE IF s2 = {} THEN {ONOFF} ELSE s2

\* light.py 73-85: the set stored in _attr_supported_color_modes
supported_color_modes(i) ==
    LET s1 == IF i.enable_rgbw THEN {RGBW} ELSE {}
        s2 == IF i.enable_cct THEN s1 \cup {COLOR_TEMP} ELSE s1
    IN  IF s2 = {}
        THEN IF i.enable_dimming THEN {ONOFF, BRIGHTNESS} ELSE {ONOFF}
        ELSE s2

\* light.py 87-94 with the first two branches exchanged
color_mode_cct_first(s) ==
    IF COLOR_TEMP \in s THEN COLOR_TEMP
    ELSE IF RGBW \in s THEN RGBW
    ELSE IF BRIGHTNESS \in s THEN BRIGHTNESS
    ELSE ONOFF

\* light.py 87-94: the if / elif chain over the set
color_mode(s) ==
    IF RGBW \in s THEN RGBW
    ELSE IF COLOR_TEMP \in s THEN COLOR_TEMP
    ELSE IF BRIGHTNESS \in s THEN BRIGHTNESS
    ELSE ONOFF

\* a call made by a handler: on client c, about device dev, with address ip
\* or the device list devices
Ev(op, c, dev, ip, devices) ==
    [op |-> op, client |-> c, dev |-> dev, ip |-> ip, devices |-> devices]

\* light.py 54-94: AidotLight(client, device) on AidotClient c, for a device
\* whose device client reports the flags i.  The constructor calls
\* client.get_device_client(device) and sets the two colour-mode attributes.
AidotLight_init(c, device, i) ==
    [entity |-> [client |-> c, dev |-> device,
                 supported_color_modes |-> supported_color_modes(i),
                 color_mode |-> color_mode(supported_color_modes(i))],
     call   |-> Ev("get_device_client", c, device, "", <<>>)]

(***************************************************************************)
(*              light.py : is_on, async_turn_on, async_turn_off            *)
(***************************************************************************)
ATTR_BRIGHTNESS        == "brightness"
ATTR_COLOR_TEMP_KELVIN == "color_temp_kelvin"
ATTR_RGBW_COLOR        == "rgbw_color"
Attrs == {ATTR_BRIGHTNESS, ATTR_COLOR_TEMP_KELVIN, ATTR_RGBW_COLOR}

\* the values a caller passes for each attribute
AttrValues(a) ==
    IF a = ATTR_BRIGHTNESS THEN {1, 255}
    ELSE IF a = ATTR_COLOR_TEMP_KELVIN THEN {2700}
    ELSE {<<255, 0, 0, 0>>}

\* every **kwargs: a dict over some of the attributes.  A key that is passed
\* holds <<value>>, a key that is not passed holds <<>>.
Opt(S) == {<<>>} \cup {<<v>> : v \in S}
Kwargs == [brightness : Opt(AttrValues(ATTR_BRIGHTNESS)),
           color_temp_kelvin : Opt(AttrValues(ATTR_COLOR_TEMP_KELVIN)),
           rgbw_color : Opt(AttrValues(ATTR_RGBW_COLOR))]
NoKwargs == [brightness |-> <<>>, color_temp_kelvin |-> <<>>, rgbw_color |-> <<>>]
Passed(kwargs, a) == kwargs[a] # <<>>

\* the service calls that can be in flight together
Slots == {"a", "b"}

\* a service call: the commands it will await in turn (fixed once is_on and
\* kwargs are read), how many of them it has sent, and whether it is parked
\* on the last one sent ("awaiting"), has returned or has raised
NoCall == [fn |-> "none", kwargs |-> NoKwargs, was_on |-> FALSE,
           plan |-> <<>>, n |-> 0, state |-> "none"]

Cmd(op, args) == [op |-> op, args |-> args]

\* the commands a call has sent so far
Sent(c) == SubSeq(c.plan, 1, c.n)

is_on == status_on

\* light.py 157-158 without the is_on test
turn_on_cmd_always(on) == <<Cmd("async_turn_on", <<>>)>>

\* light.py 157-158
turn_on_cmd(on) == IF ~on THEN <<Cmd("async_turn_on", <<>>)>> ELSE <<>>

\* light.py 160-165: one optional command
attr_cmd(kwargs, a, op) ==
    IF Passed(kwargs, a) THEN <<Cmd(op, kwargs[a])>> ELSE <<>>

\* light.py 160-165
turn_on_attr_cmds(kwargs) ==
       attr_cmd(kwargs, ATTR_BRIGHTNESS, "async_set_brightness")
    \o attr_cmd(kwargs, ATTR_COLOR_TEMP_KELVIN, "async_set_cct")
    \o attr_cmd(kwargs, ATTR_RGBW_COLOR, "async_set_rgbw")

\* a call enters its body: it runs to its first await, that is, it sends its
\* first command and parks on it, or returns when it has none to send
enter(fn, kwargs, on, plan) ==
    [fn |-> fn, kwargs |-> kwargs, was_on |-> on, plan |-> plan,
     n |-> IF plan = <<>> THEN 0 ELSE 1,
     state |-> IF plan = <<>> THEN "returned" ELSE "awaiting"]

\* light.py 155-158: the call starts in slot s, reads is_on and kwargs
async_turn_on(s, kwargs) ==
    /\ entities # <<>>
    /\ calls[s].state # "awaiting"
    /\ calls' = [calls EXCEPT ![s] =
                    enter("async_turn_on", kwargs, is_on,
                          turn_on_cmd(is_on) \o turn_on_attr_cmds(kwargs))]
    /\ UNCHANGED <<status_on, setupVars, loopVars>>

\* light.py 167-169
async_turn_off(s) ==
    /\ entities # <<>>
    /\ calls[s].state # "awaiting"
    /\ calls' = [calls EXCEPT ![s] =
                    enter("async_turn_off", NoKwargs, is_on,
                          <<Cmd("async_turn_off", <<>>)>>)]
    /\ UNCHANGED <<status_on, setupVars, loopVars>>

\* light.py 158-165, 169: the command the call in slot s awaits ended with r.
\* When it returned the call sends its next command and parks again, or
\* returns; when it raised the exception leaves the call.
command_done(s, r) ==
    /\ calls[s].state = "awaiting"
    /\ calls' = [calls EXCEPT ![s] =
                    IF r # OK THEN [@ EXCEPT !.state = "raised"]
                    ELSE IF @.n < Len(@.plan) THEN [@ EXCEPT !.n = @ + 1]
                    ELSE [@ EXCEPT !.state = "returned"]]
    /\ UNCHANGED <<status_on, setupVars, loopVars>>

\* the client library updates its status snapshot (light.py 125-128 reads it)
status_update(on) ==
    /\ entities # <<>>
    /\ status_on # on
    /\ status_on' = on
    /\ UNCHANGED <<calls, setupVars, loopVars>>

(***************************************************************************)
(*   light.py : async_added_to_hass, async_will_remove_from_hass,          *)
(*              _async_update_loop                                         *)
(***************************************************************************)
Lights   == {"l1", "l2"}
MaxTasks == 2

\* self.device_client of an entity (light.py 57): one client per entity
device_client(l) == <<"device_client", l>>

\* where a task stands: awaiting read_status, awaiting async_login in the
\* handler, awaiting asyncio.sleep(5), ended by cancellation, or ended by an
\* exception that left the loop
Live == {"read_status", "async_login", "sleep"}

Task(l) == [owner |-> l, pc |-> "read_status", raised |-> "none", by |-> "none"]

NoEvent == [task |-> 0, ops |-> <<>>, client |-> <<>>]
Event(t, ops, c) == [task |-> t, ops |-> ops, client |-> c]

TaskIds == 1 .. Len(tasks)

\* Task.cancel(): a task suspended at an await gets CancelledError there;
\* CancelledError is no Exception, so neither handler of the loop catches it
cancel(ts, t) ==
    IF ts[t].pc \in Live THEN [ts EXCEPT ![t].pc = "cancelled"] ELSE ts

\* light.py 96-99: the host starts the hook, which runs up to the await of
\* async_login and parks there; update_task is not assigned yet
async_added_to_hass(l) ==
    /\ l \notin adding
    /\ adding' = adding \cup {l}
    /\ hass_state' = [hass_state EXCEPT ![l] = "added"]
    /\ event' = Event(0, <<"async_login">>, device_client(l))
    /\ UNCHANGED <<tasks, update_task>>
    /\ UNCHANGED <<setupVars, serviceVars>>

\* light.py 99-100: the async_login the hook awaits ended with login.  When
\* it returned the hook creates the task and assigns update_task; an
\* exception leaves the hook before the task is created.
async_added_to_hass_login(l, login) ==
    /\ l \in adding
    /\ login = OK => Len(tasks) < MaxTasks
    /\ adding' = adding \ {l}
    /\ IF login = OK
       THEN /\ tasks' = Append(tasks, Task(l))
            /\ update_task' = [update_task EXCEPT ![l] = Len(tasks) + 1]
       ELSE UNCHANGED <<tasks, update_task>>
    /\ event' = IF login = OK THEN Event(0, <<"create_task">>, device_client(l))
                ELSE NoEvent
    /\ UNCHANGED hass_state
    /\ UNCHANGED <<setupVars, serviceVars>>

\* light.py 102-106
async_will_remove_from_hass(l) ==
    /\ tasks' = IF update_task[l] # 0 THEN cancel(tasks, update_task[l])
                ELSE tasks
    /\ hass_state' = [hass_state EXCEPT ![l] = "removed"]
    /\ event' = NoEvent
    /\ UNCHANGED <<update_task, adding>>
    /\ UNCHANGED <<setupVars, serviceVars>>

\* light.py 112-113 and the handler that takes the outcome: read_status
\* returned r; when it returned normally async_write_ha_state returned w
poll(t, r, w) ==
    /\ t \in TaskIds
    /\ tasks[t].pc = "read_status"
    /\ LET c   == device_client(tasks[t].owner)
           x   == IF r = OK THEN w ELSE r
           ops == (IF r = OK THEN <<"read_status", "async_write_ha_state">>
                   ELSE <<"read_status">>)
                  \o (IF x = ERROR THEN <<"_LOGGER.error">> ELSE <<>>)
           by  == IF r = OK THEN "async_write_ha_state" ELSE "read_status"
       IN  /\ event' = Event(t, ops, c)
           /\ tasks' =
                IF x = OK THEN tasks
                ELSE IF x = NOT_LOGIN
                THEN [tasks EXCEPT ![t].pc = "async_login",
                                   ![t].raised = x, ![t].by = by]
                ELSE [tasks EXCEPT ![t].pc = "sleep",
                                   ![t].raised = x, ![t].by = by]
    /\ UNCHANGED <<update_task, adding, hass_state>>
    /\ UNCHANGED <<setupVars, serviceVars>>

\* light.py 114-115: async_login, awaited inside the except clause, ended
\* with r.  An exception raised there is outside the try block: no handler
\* of the loop takes it and it ends the task.
relogin(t, r) ==
    /\ t \in TaskIds
    /\ tasks[t].pc = "async_login"
    /\ event' = Event(t, <<"async_login">>, device_client(tasks[t].owner))
    /\ tasks' = IF r = OK
                THEN [tasks EXCEPT ![t].pc = "read_status",
                                   ![t].raised = "none", ![t].by = "none"]
                ELSE [tasks EXCEPT ![t].pc = "failed",
                                   ![t].raised = r, ![t].by = "async_login"]
    /\ UNCHANGED <<update_task, adding, hass_state>>
    /\ UNCHANGED <<setupVars, serviceVars>>

\* light.py 116-118: the 5 second sleep after the error was logged is over
wake(t) ==
    /\ t \in TaskIds
    /\ tasks[t].pc = "sleep"
    /\ event' = Event(t, <<"sleep">>, <<>>)
    /\ tasks' = [tasks EXCEPT ![t].pc = "read_status",
                              ![t].raised = "none", ![t].by = "none"]
    /\ UNCHANGED <<update_task, adding, hass_state>>
    /\ UNCHANGED <<setupVars, serviceVars>>

\* light.py 108-118: one step of a polling task
_async_update_loop(t) ==
    \/ \E r \in Outcomes, w \in Outcomes : poll(t, r, w)
    \/ \E r \in Outcomes : relogin(t, r)
    \/ wake(t)

(***************************************************************************)
(*   __init__.py : async_setup_entry, async_unload_entry                   *)
(*   light.py    : async_setup_entry (the light platform)                  *)
(***************************************************************************)
Entries     == {"e1", "e2"}
DevIds      == {"d1", "d2"}
ProductIds  == {"p1", "p2"}
Ips         == {"", "10.0.0.1"}
MaxDevices  == 2
MaxProducts == 2
MaxSetups   == 2

\* device["type"] and device["aesKey"]: the key is missing from the dict
\* (Absent), its first element is None ("none") or a key ("key")
Types   == {"light", "switch"}
AesKeys == {Absent, "none", "key"}

\* a device dict without the key "product" holds NoProduct
NoProduct == [id |-> "none", tag |-> 0]
NoDevice  == [id |-> "none", productId |-> "none", product |-> NoProduct,
              type |-> "none", aesKey |-> Absent]

\* entry.data[CONF_PRODUCT_LIST]: the tag tells products of one id apart
ProductLists ==
    UNION {{[i \in 1 .. n |-> [id |-> f[i], tag |-> i]] :
               f \in [1 .. n -> ProductIds]} : n \in 0 .. MaxProducts}

\* entry.data[CONF_DEVICE_LIST] as stored by the config flow, for devices of
\* the types T with the keys K
DeviceLists(T, K) ==
    UNION {[1 .. n -> [id : DevIds, productId : ProductIds,
                       product : {NoProduct}, type : T, aesKey : K]] :
              n \in 0 .. MaxDevices}

\* entry.data.get(CONF_MANUAL_IPS): None, or a dict from device ids to
\* addresses (ips[d] = Absent: d is no key of the dict)
NoManualIps == [none |-> TRUE, ips |-> [d \in DevIds |-> Absent]]
ManualIps ==
    {NoManualIps} \cup [none : {FALSE}, ips : [DevIds -> Ips \cup {Absent}]]

\* __init__.py 43-45 for one product
assign_product(devices, product) ==
    [i \in DOMAIN devices |->
        IF devices[i].productId = product.id
        THEN [devices[i] EXCEPT !.product = product]
        ELSE devices[i]]

\* __init__.py 42-45 keeping the first product that matches
RECURSIVE cross_reference_first(_, _)
cross_reference_first(devices, products) ==
    IF products = <<>> THEN devices
    ELSE assign_product(cross_reference_first(devices, Tail(products)),
                        Head(products))

\* __init__.py 42-45: for product in products: for device in devices
RECURSIVE cross_reference(_, _)
cross_reference(devices, products) ==
    IF products = <<>> THEN devices
    ELSE cross_reference(assign_product(devices, Head(products)),
                         Tail(products))

\* Python truth of a dict or None (__init__.py 56) and of a string (62)
truthy_map(m) == ~m.none /\ \E d \in DevIds : m.ips[d] # Absent
truthy_str(x) == x # ""

\* __init__.py 59-65 without the test of the address
manual_ip_calls_for_any_value(c, device, m) ==
    IF m.ips[device.id] # Absent
    THEN <<Ev("get_device_client", c, device, "", <<>>),
           Ev("update_ip_address", c, device, m.ips[device.id], <<>>)>>
    ELSE <<>>

\* __init__.py 59-65 for one device of the list
manual_ip_calls_for(c, device, m) ==
    IF m.ips[device.id] # Absent /\ truthy_str(m.ips[device.id])
    THEN <<Ev("get_device_client", c, device, "", <<>>),
           Ev("update_ip_address", c, device, m.ips[device.id], <<>>)>>
    ELSE <<>>

\* __init__.py 55-65
RECURSIVE manual_ip_calls(_, _, _)
manual_ip_calls(c, devices, m) ==
    IF ~truthy_map(m) \/ devices = <<>> THEN <<>>
    ELSE manual_ip_calls_for(c, Head(devices), m)
         \o manual_ip_calls(c, Tail(devices), m)

NoRecord == [client |-> 0, devices |-> <<>>]
NoHassData(E) == [domain |-> FALSE, device_list |-> Absent,
                  login_info |-> Absent, product_list |-> Absent,
                  records |-> [e \in E |-> NoRecord]]

NoLastCall == [fn |-> "none", entry |-> "none", unload_ok |-> FALSE,
               result |-> "none", trace |-> <<>>]

\* an async_setup_entry call: "forward" while it awaits
\* async_forward_entry_setups, then "True" or "raised"; the client it made;
\* the calls made on its behalf so far; what the light platform did inside
\* the forward ("pending", "done", "KeyError")
NoSetup == [stage |-> "none", client |-> 0, trace |-> <<>>,
            platform |-> "none"]

ClientOps == {"AidotClient", "get_device_client", "update_ip_address",
              "start_discover", "cleanup"}
IsClientCall(ev) == ev.op \in ClientOps

\* __init__.py 47-69 with start_discover called before the record is stored
\* and the manual addresses are applied
setup_trace_discover_first(e, c, devices, m) ==
       <<Ev("AidotClient", c, NoDevice, "", <<>>),
         Ev("start_discover", c, NoDevice, "", <<>>),
         Ev("store_record", c, NoDevice, "", devices)>>
    \o manual_ip_calls(c, devices, m)
    \o <<Ev("async_forward_entry_setups", c, NoDevice, "", <<>>)>>

\* __init__.py 47-69: the calls made once the products are assigned, given
\* the new client c and the devices.  update_ip_address stands for
\* update_ip_address(ip, manual=True).
setup_trace(e, c, devices, m) ==
       <<Ev("AidotClient", c, NoDevice, "", <<>>),
         Ev("store_record", c, NoDevice, "", devices)>>
    \o manual_ip_calls(c, devices, m)
    \o <<Ev("start_discover", c, NoDevice, "", <<>>),
         Ev("async_forward_entry_setups", c, NoDevice, "", <<>>)>>

\* __init__.py 29-69: the handler runs up to the await of
\* async_forward_entry_setups and parks there
async_setup_entry(e) ==
    /\ e \in DOMAIN entry_data
    /\ setups[e].stage # "forward"
    /\ Len(clients) < MaxSetups
    /\ LET data    == entry_data[e]
           devices == cross_reference(data.devices, data.products)
           c       == Len(clients) + 1
           trace   == setup_trace(e, c, devices, data.manual_ips)
       IN  /\ entry_data' = [entry_data EXCEPT ![e].devices = devices]
           /\ hass_data' = [hass_data EXCEPT
                               !.domain = TRUE,
                               !.device_list = e,
                               !.login_info = e,
                               !.product_list = e,
                               !.records[e] = [client |-> c,
                                               devices |-> devices]]
           /\ clients' = Append(clients,
                                [token |-> e,
                                 calls |-> SelectSeq(trace, IsClientCall)])
           /\ setups' = [setups EXCEPT ![e] =
                            [stage |-> "forward", client |-> c,
                             trace |-> trace, platform |-> "pending"]]
           /\ last_call' = [fn |-> "async_setup_entry", entry |-> e,
                            unload_ok |-> FALSE, result |-> "awaiting",
                            trace |-> trace]
    /\ UNCHANGED <<info, entities>>
    /\ UNCHANGED <<serviceVars, loopVars>>

\* light.py 43-45: the devices the platform builds an entity for
is_light(device_info) ==
    /\ device_info.type = "light"
    /\ device_info.aesKey # Absent
    /\ device_info.aesKey # "none"

\* light.py 41-46: AidotLight(client, device_info) for each device kept
RECURSIVE build_lights(_, _, _)
build_lights(c, devices, inf) ==
    IF devices = <<>> THEN <<>>
    ELSE (IF is_light(Head(devices))
          THEN <<AidotLight_init(c, Head(devices), inf[Head(devices).id])>>
          ELSE <<>>)
         \o build_lights(c, Tail(devices), inf)

\* light.py 32-46: the platform function the host runs inside
\* async_forward_entry_setups.  It reads the record of the entry from
\* hass.data (KeyError when an unload has popped it) and hands the entities
\* it builds to async_add_entities.
light_async_setup_entry(e) ==
    /\ e \in DOMAIN entry_data
    /\ setups[e].stage = "forward"
    /\ setups[e].platform = "pending"
    /\ IF ~hass_data.domain \/ hass_data.records[e] = NoRecord
       THEN /\ setups' = [setups EXCEPT ![e].platform = "KeyError"]
            /\ last_call' = [fn |-> "light.async_setup_entry", entry |-> e,
                             unload_ok |-> FALSE, result |-> "KeyError",
                             trace |-> <<>>]
            /\ UNCHANGED <<clients, entities>>
       ELSE LET c      == hass_data.records[e].client
                built  == build_lights(c, hass_data.records[e].devices, info)
                trace  == [k \in DOMAIN built |-> built[k].call]
            IN  /\ entities' = entities \o
                               [k \in DOMAIN built |-> built[k].entity]
                /\ clients' = [clients EXCEPT ![c].calls = @ \o trace]
                /\ setups' = [setups EXCEPT ![e].platform = "done",
                                            ![e].trace = @ \o trace]
                /\ last_call' = [fn |-> "light.async_setup_entry",
                                 entry |-> e, unload_ok |-> FALSE,
                                 result |-> "None", trace |-> trace]
    /\ UNCHANGED <<entry_data, hass_data, info>>
    /\ UNCHANGED <<serviceVars, loopVars>>

\* __init__.py 69-71: the awaited async_forward_entry_setups ended with r.
\* It returns once the platform function has run (the host logs what the
\* platform function raises), and the handler returns True; an exception it
\* raises leaves the handler, the record still stored.
async_setup_entry_forwarded(e, r) ==
    /\ e \in DOMAIN entry_data
    /\ setups[e].stage = "forward"
    /\ r \in {OK, ERROR}
    /\ r = OK => setups[e].platform # "pending"
    /\ setups' = [setups EXCEPT ![e].stage =
                     IF r = OK THEN "True" ELSE "raised"]
    /\ last_call' = [fn |-> "async_setup_entry", entry |-> e,
                     unload_ok |-> FALSE,
                     result |-> IF r = OK THEN "True" ELSE "raised",
                     trace |-> <<>>]
    /\ UNCHANGED <<entry_data, hass_data, clients, info, entities>>
    /\ UNCHANGED <<serviceVars, loopVars>>

\* __init__.py 74-85 with cleanup called before the record is popped and
\* whatever the platforms reported
async_unload_entry_always_cleanup(e, unload_ok) ==
    /\ e \in DOMAIN entry_data
    /\ hass_data.domain /\ hass_data.records[e] # NoRecord
    /\ LET c == hass_data.records[e].client
       IN  /\ clients' = [clients EXCEPT ![c].calls =
                            Append(@, Ev("cleanup", c, NoDevice, "", <<>>))]
           /\ hass_data' = IF unload_ok
                           THEN [hass_data EXCEPT !.records[e] = NoRecord]
                           ELSE hass_data
           /\ last_call' = [fn |-> "async_unload_entry", entry |-> e,
                            unload_ok |-> unload_ok,
                            result |-> IF unload_ok THEN "True" ELSE "False",
                            trace |-> <<Ev("cleanup", c, NoDevice, "", <<>>)>>]
    /\ UNCHANGED <<entry_data, setups, info, entities>>
    /\ UNCHANGED <<serviceVars, loopVars>>

\* __init__.py 74-85; unload_ok is what async_unload_platforms returned.
\* Nothing is read or written before that await, so the handler is one step
\* from its return on.
async_unload_entry(e, unload_ok) ==
    /\ e \in DOMAIN entry_data
    /\ IF ~unload_ok
       THEN /\ last_call' = [fn |-> "async_unload_entry", entry |-> e,
                             unload_ok |-> FALSE, result |-> "False",
                             trace |-> <<>>]
            /\ UNCHANGED <<hass_data, clients>>
       ELSE IF ~hass_data.domain \/ hass_data.records[e] = NoRecord
       THEN \* hass.data[DOMAIN].pop(entry.entry_id) raises KeyError
            /\ last_call' = [fn |-> "async_unload_entry", entry |-> e,
                             unload_ok |-> TRUE, result |-> "KeyError",
                             trace |-> <<>>]
            /\ UNCHANGED <<hass_data, clients>>
       ELSE LET c == hass_data.records[e].client
                trace == <<Ev("pop_record", c, NoDevice, "", <<>>),
                           Ev("cleanup", c, NoDevice, "", <<>>),
                           Ev("pop_keys", c, NoDevice, "", <<>>)>>
            IN  /\ hass_data' = [hass_data EXCEPT
                                    !.records[e] = NoRecord,
                                    !.device_list = Absent,
                                    !.login_info = Absent,
                                    !.product_list = Absent]
                /\ clients' = [clients EXCEPT ![c].calls =
                                 @ \o SelectSeq(trace, IsClientCall)]
                /\ last_call' = [fn |-> "async_unload_entry", entry |-> e,
                                 unload_ok |-> TRUE, result |-> "True",
                                 trace |-> trace]
    /\ UNCHANGED <<entry_data, setups, info, entities>>
    /\ UNCHANGED <<serviceVars, loopVars>>

(***************************************************************************)
(*                           Specifications                                *)
(***************************************************************************)
NoInfo == [enable_rgbw |-> FALSE, enable_cct |-> FALSE,
           enable_dimming |-> FALSE]

ServiceIdle ==
    /\ status_on = FALSE
    /\ calls = [s \in Slots |-> NoCall]

LoopIdle ==
    /\ update_task = [l \in Lights |-> 0]
    /\ tasks = <<>>
    /\ adding = {}
    /\ hass_state = [l \in Lights |-> "none"]
    /\ event = NoEvent

\* no entry is set up yet: the entries E hold one of the configurations D,
\* the devices report one of the capabilities I
SetupIdle(E, D, I) ==
    /\ entry_data \in [E -> D]
    /\ hass_data = NoHassData(E)
    /\ clients = <<>>
    /\ setups = [e \in E |-> NoSetup]
    /\ last_call = NoLastCall
    /\ info \in I
    /\ entities = <<>>

\* the steps of the handlers of a config entry
SetupNext ==
    \/ \E e \in Entries : async_setup_entry(e)
    \/ \E e \in Entries : light_async_setup_entry(e)
    \/ \E e \in Entries, r \in Outcomes : async_setup_entry_forwarded(e, r)
    \/ \E e \in Entries, ok \in BOOLEAN : async_unload_entry(e, ok)

\* ---- one entry whose devices are lights that hold a key: every list of
\*      product ids of devices and products without manual addresses, and
\*      every list of device ids and manual-IP map with products of one id ----
EntryData ==
    {d \in [devices : DeviceLists({"light"}, {"key"}),
            products : ProductLists, manual_ips : ManualIps] :
        \/ /\ d.manual_ips.none
           /\ \A i \in DOMAIN d.devices : d.devices[i].id = "d1"
        \/ /\ \A i \in DOMAIN d.devices : d.devices[i].productId = "p1"
           /\ \A i \in DOMAIN d.products : d.products[i].id = "p1"}

SetupInit ==
    ServiceIdle /\ LoopIdle
        /\ SetupIdle({"e1"}, EntryData, {[d \in DevIds |-> NoInfo]})

SpecSetup == SetupInit /\ [][SetupNext]_vars

\* ---- two entries in one store, each with one of a few configurations ----
StoreData ==
    {d \in EntryData :
        /\ Len(d.devices) <= 1 /\ Len(d.products) <= 1
        /\ \A i \in DOMAIN d.devices : d.devices[i].id = "d1"
        /\ d.manual_ips.none
        /\ \A i \in DOMAIN d.devices : d.devices[i].productId = "p1"
        /\ \A i \in DOMAIN d.products : d.products[i].id = "p1"}

StoreInit ==
    ServiceIdle /\ LoopIdle
        /\ SetupIdle({"e1", "e2"}, StoreData, {[d \in DevIds |-> NoInfo]})

SpecStore == StoreInit /\ [][SetupNext]_vars

\* ---- one entry with the devices d1 and d2, of every type, with and
\*      without a key, reporting every combination of capabilities ----
LightDevice(d, t, k) ==
    [id |-> d, productId |-> "p1", product |-> NoProduct, type |-> t,
     aesKey |-> k]

LightData ==
    {[devices |-> <<LightDevice("d1", t1, k1), LightDevice("d2", t2, k2)>>,
      products |-> <<>>, manual_ips |-> NoManualIps] :
        t1 \in Types, k1 \in AesKeys, t2 \in Types, k2 \in AesKeys}

LightInit ==
    ServiceIdle /\ LoopIdle /\ SetupIdle({"e1"}, LightData, [DevIds -> Infos])

SpecLight == LightInit /\ [][SetupNext]_vars

\* ---- service calls on the AidotLight of an entry that has been set up
\*      with one light ----
ServiceDevice == LightDevice("d1", "light", "key")
ServiceData   == [devices |-> <<ServiceDevice>>, products |-> <<>>,
                  manual_ips |-> NoManualIps]
ServiceLight  == AidotLight_init(1, ServiceDevice, NoInfo)

\* the state async_setup_entry("e1"), the light platform and the return of
\* the forward leave
ServiceInit ==
    /\ LoopIdle
    /\ entry_data = [e \in {"e1"} |-> ServiceData]
    /\ hass_data = [domain |-> TRUE, device_list |-> "e1",
                    login_info |-> "e1", product_list |-> "e1",
                    records |-> [e \in {"e1"} |->
                                   [client |-> 1,
                                    devices |-> <<ServiceDevice>>]]]
    /\ clients = <<[token |-> "e1",
                    calls |-> SelectSeq(setup_trace("e1", 1, <<ServiceDevice>>,
                                                    NoManualIps), IsClientCall)
                              \o <<ServiceLight.call>>]>>
    /\ setups = [e \in {"e1"} |->
                   [stage |-> "True", client |-> 1,
                    trace |-> setup_trace("e1", 1, <<ServiceDevice>>,
                                          NoManualIps)
                              \o <<ServiceLight.call>>,
                    platform |-> "done"]]
    /\ last_call = [fn |-> "async_setup_entry", entry |-> "e1",
                    unload_ok |-> FALSE, result |-> "True", trace |-> <<>>]
    /\ info = [d \in DevIds |-> NoInfo]
    /\ entities = <<ServiceLight.entity>>
    /\ status_on \in BOOLEAN
    /\ calls = [s \in Slots |-> NoCall]

ServiceNext ==
    \/ \E s \in Slots, k \in Kwargs : async_turn_on(s, k)
    \/ \E s \in Slots : async_turn_off(s)
    \/ \E s \in Slots, r \in Outcomes : command_done(s, r)
    \/ \E on \in BOOLEAN : status_update(on)

SpecService == ServiceInit /\ [][ServiceNext]_vars

\* ---- entities, their lifecycle hooks and their polling tasks ----
LoopInit ==
    ServiceIdle /\ LoopIdle /\ SetupIdle({}, {}, {[d \in DevIds |-> NoInfo]})

LoopNext ==
    \/ \E l \in Lights : async_added_to_hass(l)
    \/ \E l \in Lights, r \in Outcomes : async_added_to_hass_login(l, r)
    \/ \E l \in Lights : async_will_remove_from_hass(l)
    \/ \E t \in 1 .. MaxTasks : _async_update_loop(t)

SpecLoop == LoopInit /\ [][LoopNext]_vars

(***************************************************************************)
(*                        Properties of SpecLight                          *)
(***************************************************************************)
Flags(k) == info[entities[k].dev.id]

\* C6: the color mode an AidotLight selects at construction follows the
\* precedence RGBW > color temperature > brightness > on/off over the
\* capability flags, for each of the 8 combinations of flags.
C6_ColorModePrecedence ==
    \A k \in DOMAIN entities :
        entities[k].color_mode =
            IF Flags(k).enable_rgbw THEN RGBW
            ELSE IF Flags(k).enable_cct THEN COLOR_TEMP
            ELSE IF Flags(k).enable_dimming THEN BRIGHTNESS
            ELSE ONOFF

\* the platform built a light with every capability, which selected RGBW,
\* and a light that can only dim, which selected BRIGHTNESS
C6_Witness ==
    \E k, j \in DOMAIN entities :
        /\ Flags(k).enable_rgbw /\ Flags(k).enable_cct /\ Flags(k).enable_dimming
        /\ entities[k].color_mode = RGBW
        /\ ~Flags(j).enable_rgbw /\ ~Flags(j).enable_cct /\ Flags(j).enable_dimming
        /\ entities[j].color_mode = BRIGHTNESS

\* C10: the supported color-mode set of an AidotLight is non-empty, contains
\* the selected mode, holds ONOFF or BRIGHTNESS only when neither enable_rgbw
\* nor enable_cct is set, and holds BRIGHTNESS only together with ONOFF.
C10_SupportedColorModes ==
    \A k \in DOMAIN entities :
        LET s == entities[k].supported_color_modes
        IN  /\ s # {}
            /\ entities[k].color_mode \in s
            /\ (ONOFF \in s \/ BRIGHTNESS \in s)
                   => (~Flags(k).enable_rgbw /\ ~Flags(k).enable_cct)
            /\ BRIGHTNESS \in s => ONOFF \in s

\* the platform built a dimmable colour-temperature light: dimming had no
\* effect on its set
C10_Witness ==
    \E k \in DOMAIN entities :
        /\ Flags(k).enable_cct /\ Flags(k).enable_dimming /\ ~Flags(k).enable_rgbw
        /\ entities[k].supported_color_modes = {COLOR_TEMP}

(***************************************************************************)
(*                       Properties of SpecService                         *)
(***************************************************************************)
SetterOf(a) ==
    IF a = ATTR_BRIGHTNESS THEN "async_set_brightness"
    ELSE IF a = ATTR_COLOR_TEMP_KELVIN THEN "async_set_cct"
    ELSE "async_set_rgbw"

Rank(op) ==
    IF op = "async_turn_on" THEN 0
    ELSE IF op = "async_set_brightness" THEN 1
    ELSE IF op = "async_set_cct" THEN 2
    ELSE IF op = "async_set_rgbw" THEN 3
    ELSE 4

Count(sent, op) == Cardinality({i \in DOMAIN sent : sent[i].op = op})

Finished(c) == c.state \in {"returned", "raised"}

\* what every call has sent so far, finished or not: turn-on only when the
\* snapshot reported the light off, setters only of attributes that were
\* passed and with the passed value, no command twice, in the fixed order
SentInOrder(c) ==
    /\ c.fn = "async_turn_on" =>
        /\ Count(Sent(c), "async_turn_on") <= IF c.was_on THEN 0 ELSE 1
        /\ \A a \in Attrs :
              /\ Count(Sent(c), SetterOf(a))
                    <= IF Passed(c.kwargs, a) THEN 1 ELSE 0
              /\ \A i \in DOMAIN Sent(c) :
                    Sent(c)[i].op = SetterOf(a)
                        => Sent(c)[i].args = c.kwargs[a]
        /\ \A i \in DOMAIN Sent(c) : Rank(Sent(c)[i].op) < 4
        /\ \A i, j \in DOMAIN Sent(c) :
              i < j => Rank(Sent(c)[i].op) < Rank(Sent(c)[j].op)
    /\ c.fn = "async_turn_off" =>
        /\ Len(Sent(c)) = 1
        /\ Sent(c)[1].op = "async_turn_off"

\* every command of the claim's sequence was sent
SentAll(c) ==
    c.fn = "async_turn_on" =>
        /\ Count(Sent(c), "async_turn_on") = IF c.was_on THEN 0 ELSE 1
        /\ \A a \in Attrs :
              Count(Sent(c), SetterOf(a)) = IF Passed(c.kwargs, a) THEN 1 ELSE 0

\* C9 as stated: a finished async_turn_on has sent turn-on only when the
\* snapshot reported the light off, then set-brightness, set-color-temperature
\* and set-RGBW in that order, each exactly once and only if its attribute
\* was passed, with the passed value; async_turn_off has sent exactly one
\* turn-off command.
C9_TurnOnTurnOff ==
    \A s \in Slots :
        Finished(calls[s]) => SentInOrder(calls[s]) /\ SentAll(calls[s])

\* C9, amended: the commands a call has sent are always a prefix of the
\* claim's sequence (turn-on only when the snapshot reported the light off,
\* then the setters of the passed attributes in the fixed order, each at
\* most once, with the passed value); an async_turn_on that returns has sent
\* the whole sequence, and nothing when the light was on and no attribute was
\* passed; one whose command raised has sent none of the later commands;
\* async_turn_off sends exactly one turn-off command.
C9_TurnOnUntilRaise ==
    \A s \in Slots :
        /\ calls[s].state # "none" => SentInOrder(calls[s])
        /\ calls[s].state = "returned" =>
              /\ SentAll(calls[s])
              /\ (calls[s].fn = "async_turn_on" /\ calls[s].was_on
                    /\ calls[s].kwargs = NoKwargs) => Sent(calls[s]) = <<>>
        /\ calls[s].state = "raised" =>
              /\ Len(Sent(calls[s])) >= 1
              /\ Len(Sent(calls[s])) <= Len(calls[s].plan)

\* a turn_on with brightness and colour on a light that was on returned
\* after sending the two setters and no turn-on command, while another
\* turn_on, on a light that was off, raised in its turn-on command and sent
\* no setter
C9_Witness ==
    \E s, u \in Slots :
        /\ calls[s].fn = "async_turn_on"
        /\ calls[s].state = "returned"
        /\ calls[s].was_on
        /\ Passed(calls[s].kwargs, ATTR_BRIGHTNESS)
        /\ Passed(calls[s].kwargs, ATTR_RGBW_COLOR)
        /\ ~Passed(calls[s].kwargs, ATTR_COLOR_TEMP_KELVIN)
        /\ Len(Sent(calls[s])) = 2
        /\ calls[u].fn = "async_turn_on"
        /\ calls[u].state = "raised"
        /\ ~calls[u].was_on
        /\ Passed(calls[u].kwargs, ATTR_BRIGHTNESS)
        /\ Len(Sent(calls[u])) = 1

(***************************************************************************)
(*                        Properties of SpecLoop                           *)
(***************************************************************************)
LiveTasks(l) == {t \in TaskIds : tasks[t].owner = l /\ tasks[t].pc \in Live}

\* C1: the polling loop never terminates on a login failure: after
\* read_status raised not-logged-in the loop calls async_login and, for every
\* outcome of that call, goes on to another read_status; the loop stops only
\* when its task is cancelled.
C1_LoginFailureNeverEndsLoop ==
    [][\A t \in TaskIds :
          tasks[t].pc = "async_login"
              => tasks'[t].pc \in {"async_login", "read_status", "cancelled"}]_vars

\* C2: every exception other than not-logged-in raised by a call the loop
\* makes is followed by the 5 second delay before the next read_status; no
\* exception is escalated out of the loop.
C2_OtherExceptionsDelayed ==
    \A t \in TaskIds :
        tasks[t].raised = ERROR => tasks[t].pc \in {"sleep", "cancelled"}

\* C3: for any sequence of lifecycle calls each entity has at most one live
\* polling task, and none once async_will_remove_from_hass has run for it
\* (and async_added_to_hass has not been called again).
C3_OneLiveTaskAnySequence ==
    \A l \in Lights :
        /\ Cardinality(LiveTasks(l)) <= 1
        /\ hass_state[l] = "removed" => LiveTasks(l) = {}

(***************************************************************************)
(*                  Properties of SpecSetup and SpecStore                  *)
(***************************************************************************)
\* the entries async_setup_entry has been called for
Started == {e \in DOMAIN entry_data : setups[e].stage # "none"}
Positions(T, op) == {i \in DOMAIN T : T[i].op = op}
Listed(e, d) ==
    \E i \in DOMAIN entry_data[e].devices : entry_data[e].devices[i].id = d
Occurrences(e, d) ==
    Cardinality({i \in DOMAIN entry_data[e].devices :
                    entry_data[e].devices[i].id = d})

\* the claim's condition on a device id: a key of the manual-IP map whose
\* value is non-empty
Qualifies(e, d) ==
    /\ ~entry_data[e].manual_ips.none
    /\ entry_data[e].manual_ips.ips[d] # Absent
    /\ entry_data[e].manual_ips.ips[d] # ""

\* C4: during async_setup_entry update_ip_address(ip, manual=True) is called
\* on a device's client if and only if the device is in the device list, its
\* id is a key of the manual-IP map and the mapped value is non-empty; the
\* address passed is the device's own mapped address, once per listed device.
C4_ManualIpOverrides ==
    \A e \in Started :
        LET T == setups[e].trace
            U == Positions(T, "update_ip_address")
        IN  /\ \A d \in DevIds, ip \in Ips :
                  (\E i \in U : T[i].dev.id = d /\ T[i].ip = ip)
                  <=> (Listed(e, d) /\ Qualifies(e, d)
                         /\ ip = entry_data[e].manual_ips.ips[d])
            /\ \A d \in DevIds :
                  Cardinality({i \in U : T[i].dev.id = d})
                  = IF Qualifies(e, d) THEN Occurrences(e, d) ELSE 0
            /\ \A i \in U :
                  /\ T[i].dev.id \in DevIds
                  /\ i - 1 \in Positions(T, "get_device_client")
                  /\ T[i - 1].dev = T[i].dev
                  /\ T[i - 1].client = T[i].client
                  /\ T[i].client = setups[e].client

\* two devices are listed; d1 has a manual address and got it, d2 is mapped
\* to the empty string and got no call
C4_Witness ==
    /\ setups["e1"].stage = "True"
    /\ Listed("e1", "d1") /\ Listed("e1", "d2")
    /\ ~entry_data["e1"].manual_ips.none
    /\ entry_data["e1"].manual_ips.ips["d2"] = ""
    /\ LET T == setups["e1"].trace
       IN  /\ \E i \in Positions(T, "update_ip_address") :
                 T[i].dev.id = "d1" /\ T[i].ip = "10.0.0.1"
           /\ Cardinality(Positions(T, "update_ip_address")) = 1

Matches(e, dev) ==
    {i \in DOMAIN entry_data[e].products :
        entry_data[e].products[i].id = dev.productId}
LastOf(S) == CHOOSE i \in S : \A j \in S : j <= i

\* the claim's product of a device: the last product of the list with the
\* device's productId, none when no product has it
CrossReferenced(e, dev) ==
    IF Matches(e, dev) # {}
    THEN dev.product = entry_data[e].products[LastOf(Matches(e, dev))]
    ELSE dev.product = NoProduct

\* C5: before a device is passed to client.get_device_client (by the setup
\* or by an AidotLight the platform builds) or stored in the entry record,
\* its "product" is the last product of the product list whose id equals the
\* device's productId; a device whose productId matches no product gets no
\* product.
C5_ProductCrossReference ==
    \A e \in Started :
        LET T == setups[e].trace
        IN  /\ \A i \in Positions(T, "get_device_client") :
                  CrossReferenced(e, T[i].dev)
            /\ \A i \in Positions(T, "store_record") :
                  /\ Len(T[i].devices) = Len(entry_data[e].devices)
                  /\ \A k \in DOMAIN T[i].devices :
                        /\ T[i].devices[k].id = entry_data[e].devices[k].id
                        /\ T[i].devices[k].productId
                              = entry_data[e].devices[k].productId
                        /\ CrossReferenced(e, T[i].devices[k])
            /\ Positions(T, "store_record") # {}
            /\ \A k \in DOMAIN hass_data.records[e].devices :
                  CrossReferenced(e, hass_data.records[e].devices[k])
            /\ \A k \in DOMAIN entities :
                  entities[k].client = setups[e].client
                      => CrossReferenced(e, entities[k].dev)

\* two products share an id: the stored device got the second one, a device
\* of another productId got none, and the platform built its lights from them
C5_Witness ==
    /\ setups["e1"].stage = "True"
    /\ Len(entry_data["e1"].products) = 2
    /\ entry_data["e1"].products[1].id = "p1"
    /\ entry_data["e1"].products[2].id = "p1"
    /\ LET devs == hass_data.records["e1"].devices
       IN  /\ Len(devs) = 2
           /\ devs[1].productId = "p1" /\ devs[1].product.tag = 2
           /\ devs[2].productId = "p2" /\ devs[2].product = NoProduct
           /\ Len(entities) = 2
           /\ entities[1].dev = devs[1]
           /\ entities[2].dev = devs[2]

\* C8: in async_setup_entry the entry record is stored and every manual IP
\* override is applied before start_discover, start_discover is called
\* exactly once per setup, and the platforms are forwarded only after
\* start_discover and after the record is stored: whatever the light
\* platform calls on the client comes after start_discover.
C8_SetupOrder ==
    /\ \A e \in Started :
        LET T == setups[e].trace
            F == Positions(T, "async_forward_entry_setups")
        IN  /\ Cardinality(Positions(T, "start_discover")) = 1
            /\ Cardinality(Positions(T, "store_record")) = 1
            /\ Cardinality(F) = 1
            /\ \A i \in Positions(T, "store_record")
                        \cup Positions(T, "update_ip_address"),
                  j \in Positions(T, "start_discover") : i < j
            /\ \A i \in Positions(T, "store_record")
                        \cup Positions(T, "start_discover"),
                  j \in F : i < j
            /\ \A i \in DOMAIN T, j \in F :
                  i > j => /\ T[i].op = "get_device_client"
                           /\ setups[e].platform = "done"
            /\ setups[e].stage = "True" => setups[e].platform # "pending"
    /\ \A c \in DOMAIN clients :
          /\ Count(clients[c].calls, "start_discover") = 1
          /\ \A i, j \in DOMAIN clients[c].calls :
                (/\ clients[c].calls[i].op = "update_ip_address"
                 /\ clients[c].calls[j].op = "start_discover") => i < j

\* a setup that applied two manual addresses, started discovery, forwarded
\* the platforms, whose lights then asked for their device clients, and
\* returned True
C8_Witness ==
    /\ setups["e1"].stage = "True"
    /\ LET T == setups["e1"].trace
       IN  /\ Cardinality(Positions(T, "update_ip_address")) = 2
           /\ Cardinality(Positions(T, "start_discover")) = 1
           /\ Len(T) >= 2
           /\ T[Len(T)].op = "get_device_client"
           /\ T[Len(T) - 1].op = "get_device_client"

Cleanups(cs, c) == Count(cs[c].calls, "cleanup")
Holders(c) == {e \in DOMAIN entry_data : hass_data.records[e].client = c}

\* C7: async_unload_entry is all-or-nothing on the store.  When the platform
\* unload fails hass.data[DOMAIN] and the clients are unchanged and False is
\* returned; when it succeeds for an entry that has a record, the record is
\* removed, cleanup is called exactly once, on that entry's client, the
\* device-list, login-info and product-list keys are removed and the records
\* of the other entries stay.  Cleanup is never called on a client whose
\* entry record is still in the store.
C7_UnloadAllOrNothing ==
    /\ [][last_call'.fn = "async_unload_entry" =>
            LET e == last_call'.entry
                c == hass_data.records[e].client
            IN  /\ ~last_call'.unload_ok =>
                      /\ hass_data' = hass_data
                      /\ clients' = clients
                      /\ last_call'.result = "False"
                /\ (last_call'.unload_ok /\ hass_data.records[e] # NoRecord) =>
                      /\ last_call'.result = "True"
                      /\ hass_data'.records[e] = NoRecord
                      /\ hass_data'.device_list = Absent
                      /\ hass_data'.login_info = Absent
                      /\ hass_data'.product_list = Absent
                      /\ \A o \in DOMAIN entry_data \ {e} :
                            hass_data'.records[o] = hass_data.records[o]
                      /\ Cleanups(clients', c) = Cleanups(clients, c) + 1
                      /\ \A k \in DOMAIN clients \ {c} : clients'[k] = clients[k]
                      /\ Count(last_call'.trace, "cleanup") = 1]_vars
    /\ [](\A c \in DOMAIN clients : Cleanups(clients, c) > 0 => Holders(c) = {})
    /\ [](\A c \in DOMAIN clients : Cleanups(clients, c) <= 1)

\* entry e1 was unloaded while the setup of entry e2 awaits its platforms:
\* e2 keeps its record, the three shared keys are gone, and e1's client was
\* cleaned up
C7_Witness ==
    /\ last_call.fn = "async_unload_entry"
    /\ last_call.entry = "e1"
    /\ last_call.result = "True"
    /\ hass_data.records["e1"] = NoRecord
    /\ hass_data.records["e2"] # NoRecord
    /\ hass_data.device_list = Absent
    /\ \E c \in DOMAIN clients :
          clients[c].token = "e1" /\ Cleanups(clients, c) = 1
=============================================================================
